---- MODULE Spec2Model ----
(***************************************************************************)
(* Model of the volumetry agent: VolumetryService (process_study and its   *)
(* helpers _centroid_mm and _hemispheric_counts) and the FastAPI handler   *)
(* analyze_study_handler that calls it.                                    *)
(*                                                                         *)
(* Numbers.  Voxel indices, affine entries and zooms are integers, so      *)
(* every quantity the code computes is a rational number.  A rational is   *)
(* the pair <<n, d>> with d > 0 standing for n/d (not normalised; compare  *)
(* with RatEq / RatLT).  <<0, 0>> stands for float('nan'); a comparison    *)
(* with it is false, as for IEEE floats.  A point is                       *)
(* [v |-> <<a, b, c>>, d |-> k], standing for (a/k, b/k, c/k).             *)
(***************************************************************************)
EXTENDS Integers, Sequences, FiniteSets, TLC

VARIABLES
    fs,       \* storage/studies: study_code -> directory (files, metrics.json)
    task,     \* one analyze request each: position in the handler and its locals
    loop,     \* the asyncio event loop: the task it is running, 0 when idle
    vol,      \* engine specification: the image file handed to the analysis
    out,      \* engine specification: the analysis result once computed
    fnArgs,   \* helper specification: arguments of a helper call
    fnOut     \* helper specification: the helper called and its return value

vars == <<fs, task, loop, vol, out, fnArgs, fnOut>>

---------------------------------------------------------------------------
\* Bounds of the model.

\* label values stored in a voxel range over MinLabel..MaxLabel
MaxLabel == 4
\* a helper call receives at most MaxCoords voxel coordinates
MaxCoords == 3
\* number of analyze requests the service receives
NumTasks == 2

MinLabel == 0 - 1

LabelValues == MinLabel..MaxLabel

---------------------------------------------------------------------------
\* Arithmetic.

Abs(x) == IF x < 0 THEN 0 - x ELSE x

\* the element of a one-element set; The({e(x) : x \in {v}}) is e(v) with v
\* evaluated once
The(S) == CHOOSE x \in S : TRUE

Dot(r, p) == r[1] * p[1] + r[2] * p[2] + r[3] * p[3]

NaN == <<0, 0>>

IsNaN(a) == a[2] = 0

\* float <: false when either operand is NaN
RatLT(a, b) == a[2] # 0 /\ b[2] # 0 /\ a[1] * b[2] < b[1] * a[2]

\* float >=: false when either operand is NaN
RatGE(a, b) == a[2] # 0 /\ b[2] # 0 /\ a[1] * b[2] >= b[1] * a[2]

RatEq(a, b) == a[2] # 0 /\ b[2] # 0 /\ a[1] * b[2] = b[1] * a[2]

\* a voxel index as a point
VoxelPoint(idx) == [v |-> idx, d |-> 1]

\* world x coordinate of a point, as a rational
XOf(p) == <<p.v[1], p.d>>

\* nib.affines.apply_affine(aff, pts): M . p + t
apply_affine(aff, p) ==
    [v |-> [r \in 1..3 |-> Dot(aff.M[r], p.v) + p.d * aff.t[r]], d |-> p.d]

---------------------------------------------------------------------------
\* numpy helpers.

NVox(shape) == shape[1] * shape[2] * shape[3]

Indices(shape) ==
    {<<i, j, k>> : i \in 0..(shape[1] - 1), j \in 0..(shape[2] - 1),
                   k \in 0..(shape[3] - 1)}

\* the n-th index (from 0) in C order
Unravel(n, shape) ==
    <<n \div (shape[2] * shape[3]), (n \div shape[3]) % shape[2], n % shape[3]>>

\* np.argwhere(mask): the indices where the boolean array is true, in C order
argwhere(mask, shape) ==
    SelectSeq([n \in 1..NVox(shape) |-> Unravel(n - 1, shape)],
              LAMBDA i : mask[i])

\* np.sum of a boolean array
np_sum(bools) == Len(SelectSeq(bools, LAMBDA b : b))

RECURSIVE SumVec(_)
SumVec(s) ==
    IF Len(s) = 0 THEN <<0, 0, 0>>
    ELSE LET r == SumVec(Tail(s))
         IN  <<s[1][1] + r[1], s[1][2] + r[2], s[1][3] + r[3]>>

\* np.mean(coords, axis=0) of a non-empty (N,3) array
mean(coords) == [v |-> SumVec(coords), d |-> Len(coords)]

RECURSIVE Insert(_, _)
Insert(x, s) ==
    IF Len(s) = 0 THEN <<x>>
    ELSE IF x <= s[1] THEN <<x>> \o s
    ELSE <<s[1]>> \o Insert(x, Tail(s))

RECURSIVE np_sort(_)
np_sort(s) == IF Len(s) = 0 THEN <<>> ELSE Insert(s[1], np_sort(Tail(s)))

\* np.median of a non-empty array of integers
median(xs) ==
    LET s == np_sort(xs)
        n == Len(s)
    IN  IF n % 2 = 1 THEN <<s[(n + 1) \div 2], 1>>
        ELSE <<s[n \div 2] + s[n \div 2 + 1], 2>>

---------------------------------------------------------------------------
\* nibabel: orientation of an image whose affine is axis aligned.

\* nibabel.orientations.io_orientation: for each array axis the world axis it
\* runs along and its direction
io_orientation(aff) ==
    [c \in 1..3 |->
        LET r == CHOOSE r \in 1..3 :
                    \A q \in 1..3 : Abs(aff.M[r][c]) >= Abs(aff.M[q][c])
        IN  <<r, IF aff.M[r][c] < 0 THEN 0 - 1 ELSE 1>>]

\* the array axis that ornt sends to output axis a
InAx(ornt, a) == CHOOSE c \in 1..3 : ornt[c][1] = a

\* img.as_reoriented(ornt) with the data reordered but the affine of the file kept
as_reoriented_keep_affine(img, ornt) ==
    LET ns == [a \in 1..3 |-> img.shape[InAx(ornt, a)]]
    IN  [shape |-> ns,
         data  |-> [o \in Indices(ns) |->
                      img.data[[c \in 1..3 |->
                          IF ornt[c][2] < 0 THEN img.shape[c] - 1 - o[ornt[c][1]]
                          ELSE o[ornt[c][1]]]]],
         affine |-> img.affine,
         zooms |-> img.zooms]

\* img.as_reoriented(ornt): apply_orientation on the data, affine . inv_ornt_aff,
\* header zooms following the axes
as_reoriented(img, ornt) ==
    LET ns == [a \in 1..3 |-> img.shape[InAx(ornt, a)]]
        M  == img.affine.M
    IN  [shape |-> ns,
         data  |-> [o \in Indices(ns) |->
                      img.data[[c \in 1..3 |->
                          IF ornt[c][2] < 0 THEN img.shape[c] - 1 - o[ornt[c][1]]
                          ELSE o[ornt[c][1]]]]],
         affine |->
            [M |-> [r \in 1..3 |-> [a \in 1..3 |->
                        ornt[InAx(ornt, a)][2] * M[r][InAx(ornt, a)]]],
             t |-> [r \in 1..3 |->
                        img.affine.t[r]
                        + (IF ornt[1][2] < 0 THEN M[r][1] * (img.shape[1] - 1) ELSE 0)
                        + (IF ornt[2][2] < 0 THEN M[r][2] * (img.shape[2] - 1) ELSE 0)
                        + (IF ornt[3][2] < 0 THEN M[r][3] * (img.shape[3] - 1) ELSE 0)]],
         zooms |-> [a \in 1..3 |-> img.zooms[InAx(ornt, a)]]]

\* nib.as_closest_canonical(img) handing the reordered data on with the
\* affine of the file
as_closest_canonical_keep_affine(img) ==
    as_reoriented_keep_affine(img, io_orientation(img.affine))

\* nib.as_closest_canonical(img)
as_closest_canonical(img) == as_reoriented(img, io_orientation(img.affine))

---------------------------------------------------------------------------
\* VolumetryService.

\* self.labels_dict, in iteration order
labels_dict == << <<1, "ET">>, <<2, "WT">>, <<3, "TC">> >>

\* _centroid_mm returning zeros for an absent label
centroid_mm_zero(affine, coords_vox) ==
    IF Len(coords_vox) = 0 THEN << <<0, 1>>, <<0, 1>>, <<0, 1>> >>
    ELSE LET c == apply_affine(affine, mean(coords_vox))
         IN  << <<c.v[1], c.d>>, <<c.v[2], c.d>>, <<c.v[3], c.d>> >>

\* _centroid_mm applying only the linear part of the affine
centroid_mm_linear(affine, coords_vox) ==
    IF Len(coords_vox) = 0 THEN <<NaN, NaN, NaN>>
    ELSE LET c == apply_affine([M |-> affine.M, t |-> <<0, 0, 0>>], mean(coords_vox))
         IN  << <<c.v[1], c.d>>, <<c.v[2], c.d>>, <<c.v[3], c.d>> >>

centroid_mm(affine, coords_vox) ==
    IF Len(coords_vox) = 0 THEN <<NaN, NaN, NaN>>
    ELSE LET c == apply_affine(affine, mean(coords_vox))
         IN  << <<c.v[1], c.d>>, <<c.v[2], c.d>>, <<c.v[3], c.d>> >>

\* _hemispheric_counts with right counted by > instead of >=
hemispheric_counts_gt(affine, coords_vox, mid_x_mm) ==
    IF Len(coords_vox) = 0 THEN <<0, 0>>
    ELSE LET xyz == [i \in 1..Len(coords_vox) |->
                        apply_affine(affine, VoxelPoint(coords_vox[i]))]
         IN  <<np_sum([i \in 1..Len(xyz) |-> RatLT(XOf(xyz[i]), mid_x_mm)]),
               np_sum([i \in 1..Len(xyz) |-> RatLT(mid_x_mm, XOf(xyz[i]))])>>

\* _hemispheric_counts with the tie going left: left by <=, right by >
hemispheric_counts_tie_left(affine, coords_vox, mid_x_mm) ==
    IF Len(coords_vox) = 0 THEN <<0, 0>>
    ELSE LET xyz == [i \in 1..Len(coords_vox) |->
                        apply_affine(affine, VoxelPoint(coords_vox[i]))]
         IN  <<np_sum([i \in 1..Len(xyz) |-> RatGE(mid_x_mm, XOf(xyz[i]))]),
               np_sum([i \in 1..Len(xyz) |-> RatLT(mid_x_mm, XOf(xyz[i]))])>>

hemispheric_counts(affine, coords_vox, mid_x_mm) ==
    IF Len(coords_vox) = 0 THEN <<0, 0>>
    ELSE LET xyz == [i \in 1..Len(coords_vox) |->
                        apply_affine(affine, VoxelPoint(coords_vox[i]))]
         IN  <<np_sum([i \in 1..Len(xyz) |-> RatLT(XOf(xyz[i]), mid_x_mm)]),
               np_sum([i \in 1..Len(xyz) |-> RatGE(XOf(xyz[i]), mid_x_mm)])>>

\* the median plane taken over the configured labels only
mid_x_configured(img) ==
    LET brain_idx == argwhere([i \in Indices(img.shape) |->
                                 \E n \in 1..Len(labels_dict) :
                                    labels_dict[n][1] = img.data[i]],
                              img.shape)
    IN  IF Len(brain_idx) > 0
        THEN median([i \in 1..Len(brain_idx) |->
                        apply_affine(img.affine, VoxelPoint(brain_idx[i])).v[1]])
        ELSE XOf(apply_affine(img.affine,
                     [v |-> [c \in 1..3 |-> img.shape[c] - 1], d |-> 2]))

\* process_study, step 2: the median sagittal plane of the canonical image
mid_x(img) ==
    LET brain_idx == argwhere([i \in Indices(img.shape) |-> img.data[i] > 0],
                              img.shape)
    IN  IF Len(brain_idx) > 0
        THEN median([i \in 1..Len(brain_idx) |->
                        apply_affine(img.affine, VoxelPoint(brain_idx[i])).v[1]])
        ELSE XOf(apply_affine(img.affine,
                     [v |-> [c \in 1..3 |-> img.shape[c] - 1], d |-> 2]))

\* asymmetry index with the sign reversed
asymmetry_reversed(left, right) ==
    IF left + right > 0 THEN <<right - left, left + right>> ELSE <<0, 1>>

\* process_study: asymmetry_index of a label
asymmetry(left, right) ==
    IF left + right > 0 THEN <<left - right, left + right>> ELSE <<0, 1>>

\* process_study, step 3: the record of one label
label_record(img, mid_x_mm, patient, label, name) ==
    The({ LET count_vox == Len(coords)
              lr == hemispheric_counts(img.affine, coords, mid_x_mm)
              c  == centroid_mm(img.affine, coords)
          IN  [patient |-> patient,
               label |-> name,
               volume_mL |-> <<count_vox * (img.zooms[1] * img.zooms[2] * img.zooms[3]),
                               1000>>,
               asymmetry_index |-> asymmetry(lr[1], lr[2]),
               centroid_x_mm |-> c[1],
               centroid_y_mm |-> c[2],
               centroid_z_mm |-> c[3]]
          : coords \in {argwhere([i \in Indices(img.shape) |-> img.data[i] = label],
                                 img.shape)} })

\* process_study, step 3: the records of all configured labels, in the
\* iteration order of labels_dict
label_records(img, mid_x_mm, patient) ==
    [i \in 1..Len(labels_dict) |->
        label_record(img, mid_x_mm, patient, labels_dict[i][1], labels_dict[i][2])]

\* process_study, steps 1 to 3 on a readable image: canonical orientation,
\* median plane, one record per configured label
process_image(file, patient) ==
    The({ The({ [mid_x_mm |-> mid_x_mm,
                 results |-> label_records(img, mid_x_mm, patient)]
                : mid_x_mm \in {mid_x(img)} })
          : img \in {as_closest_canonical(file)} })

---------------------------------------------------------------------------
\* Input domains.

\* zooms of an axis-aligned affine: the norms of its columns
ColNorms(aff) ==
    [c \in 1..3 |-> Abs(aff.M[1][c]) + Abs(aff.M[2][c]) + Abs(aff.M[3][c])]

Image(shape, data, aff) ==
    [shape |-> shape, data |-> data, affine |-> aff, zooms |-> ColNorms(aff)]

EngineShapes == {<<4, 1, 1>>, <<2, 2, 1>>, <<2, 1, 2>>}

\* axis-aligned voxel-to-world affines, in several storage orientations
EngineAffines ==
    { [M |-> <<<<1, 0, 0>>, <<0, 1, 0>>, <<0, 0, 1>>>>, t |-> <<0, 0, 0>>],
      [M |-> <<<<2, 0, 0>>, <<0, 1, 0>>, <<0, 0, 3>>>>, t |-> <<0 - 3, 1, 0>>],
      [M |-> <<<<0 - 1, 0, 0>>, <<0, 1, 0>>, <<0, 0, 1>>>>, t |-> <<1, 0, 0>>],
      [M |-> <<<<0, 2, 0>>, <<1, 0, 0>>, <<0, 0, 1>>>>, t |-> <<0, 0 - 1, 0>>],
      [M |-> <<<<0, 0, 0 - 1>>, <<0, 0 - 2, 0>>, <<1, 0, 0>>>>, t |-> <<2, 0, 0>>] }

HelperShape == <<3, 2, 2>>

\* any integer affine, sheared and rotated ones included
HelperAffines ==
    { [M |-> <<<<1, 0, 0>>, <<0, 1, 0>>, <<0, 0, 1>>>>, t |-> <<0, 0, 0>>],
      [M |-> <<<<2, 0, 0>>, <<0, 1, 0>>, <<0, 0, 3>>>>, t |-> <<0 - 3, 1, 0>>],
      [M |-> <<<<1, 1, 0>>, <<0, 1, 0>>, <<0, 1, 1>>>>, t |-> <<0, 2, 0>>],
      [M |-> <<<<0 - 1, 0, 1>>, <<0, 1, 0>>, <<0, 0, 1>>>>, t |-> <<2, 0, 0>>],
      [M |-> <<<<0, 0 - 1, 0>>, <<1, 0, 0>>, <<0, 0, 2>>>>, t |-> <<1, 0, 0 - 1>>] }

\* what np.argwhere can return: distinct indices in C order
HelperCoords ==
    { SelectSeq([n \in 1..NVox(HelperShape) |-> Unravel(n - 1, HelperShape)],
                LAMBDA i : i \in S)
      : S \in {T \in SUBSET Indices(HelperShape) : Cardinality(T) <= MaxCoords} }

HelperMids == {<<n, d>> : n \in (0 - 1)..5, d \in {1, 2}}

---------------------------------------------------------------------------
\* The service: storage, requests, and analyze_study_handler running
\* process_study on the event loop.

Studies == {"s1", "s2"}

\* a filename is the sequence of its dot-separated parts
FileNames == {<<"a", "nii">>, <<"b", "hdr">>}

\* filename.split(".")[0]
patient_of(filename) == filename[1]

ImgA ==
    Image(<<4, 1, 1>>,
          [i \in Indices(<<4, 1, 1>>) |-> <<1, 4, 2, 2>>[i[1] + 1]],
          [M |-> <<<<2, 0, 0>>, <<0, 1, 0>>, <<0, 0, 3>>>>, t |-> <<0 - 3, 1, 0>>])

ImgB ==
    Image(<<2, 2, 1>>,
          [i \in Indices(<<2, 2, 1>>) |-> <<3, MinLabel, 1, 3>>[2 * i[1] + i[2] + 1]],
          [M |-> <<<<0 - 1, 0, 0>>, <<0, 1, 0>>, <<0, 0, 1>>>>, t |-> <<1, 0, 0>>])

Absent == [kind |-> "absent"]

\* a file that exists but is no readable image: nib.load raises ImageFileError
Corrupt == [kind |-> "corrupt"]

\* a header whose companion image file is missing: reading the data raises
\* FileNotFoundError
NoImageFile == [kind |-> "no_image"]

Readable(img) == [kind |-> "image", img |-> img]

NoMetrics == [present |-> FALSE, content |-> <<>>]

\* metrics.json left by an earlier run
OldMetrics ==
    [present |-> TRUE, content |-> process_image(ImgA, "old").results]

NoDir == [exists |-> FALSE, files |-> [f \in FileNames |-> Absent], metrics |-> NoMetrics]

StudyDirs ==
    {NoDir} \cup
    { [exists |-> TRUE,
       files |-> (<<"a", "nii">> :> fa) @@ (<<"b", "hdr">> :> fb),
       metrics |-> m]
      : fa \in {Absent, Corrupt, Readable(ImgA)},
        fb \in {Absent, NoImageFile, Readable(ImgB)},
        m \in {NoMetrics, OldMetrics} }

OtherStudyDirs ==
    {NoDir,
     [exists |-> TRUE,
      files |-> (<<"a", "nii">> :> Readable(ImgB)) @@ (<<"b", "hdr">> :> Readable(ImgA)),
      metrics |-> NoMetrics]}

Tasks == 1..NumTasks

IdleTask ==
    [pc |-> "idle", study_code |-> "", filename |-> <<>>, before |-> NoMetrics,
     img |-> <<>>, mid_x_mm |-> NaN, results |-> <<>>, n |-> 0,
     exc |-> "none", cause |-> "none", status_code |-> 0]

NoOutput == [state |-> "input"]

NoCall == [fn |-> "none"]

\* analyze_study_handler is a coroutine that calls process_study without
\* awaiting: it is run by the event loop thread, which has to be free; this
\* variant is a plain def handler, run by any thread of the pool
event_loop_free_threadpool(t) == TRUE

\* analyze_study_handler is a coroutine that calls process_study without
\* awaiting: it is run by the event loop thread, which has to be free
event_loop_free(t) == loop = 0

\* the open of metrics.json moved in front of the try block: a failing run
\* leaves the file truncated
fs_on_raise_truncated(t) ==
    [fs EXCEPT ![task[t].study_code].metrics = [present |-> TRUE, content |-> <<>>]]

\* storage when the try block of process_study raises: the except clause
\* re-raises, step 4 is not reached
fs_on_raise(t) == fs

\* the status analyze_study_handler answers with
status_of(exc) ==
    IF exc = "none" THEN 200
    ELSE IF exc = "FileNotFoundError" THEN 404
    ELSE 500

\* f.write of one chunk at the writer's own file position n
write_at(content, n, chunk) ==
    [i \in 1..(IF Len(content) > n THEN Len(content) ELSE n) |->
        IF i = n THEN chunk
        ELSE IF i <= Len(content) THEN content[i]
        ELSE "hole"]

Init ==
    /\ \E d1 \in StudyDirs, d2 \in OtherStudyDirs : fs = ("s1" :> d1) @@ ("s2" :> d2)
    /\ task = [t \in Tasks |-> IdleTask]
    /\ loop = 0
    /\ vol = <<>>
    /\ out = NoOutput
    /\ fnArgs = <<>>
    /\ fnOut = NoCall

\* POST /analyze arrives
Receive(t, study_code, filename) ==
    /\ task[t].pc = "idle"
    /\ task' = [task EXCEPT ![t] = [@ EXCEPT !.pc = "pending",
                                              !.study_code = study_code,
                                              !.filename = filename]]
    /\ UNCHANGED <<fs, loop, vol, out, fnArgs, fnOut>>

\* the handler starts; process_study lines 33-39
CheckPaths(t) ==
    /\ task[t].pc = "pending"
    /\ event_loop_free(t)
    /\ loop' = t
    /\ LET dir == fs[task[t].study_code]
       IN  IF ~dir.exists \/ dir.files[task[t].filename].kind = "absent"
           THEN task' = [task EXCEPT ![t] = [@ EXCEPT !.pc = "respond",
                                                      !.before = dir.metrics,
                                                      !.exc = "FileNotFoundError",
                                                      !.cause = "NotFound"]]
           ELSE task' = [task EXCEPT ![t] = [@ EXCEPT !.pc = "load",
                                                      !.before = dir.metrics]]
    /\ UNCHANGED <<fs, vol, out, fnArgs, fnOut>>

\* process_study lines 41-50, and 92-93 when the loader raises
Load(t) ==
    /\ task[t].pc = "load"
    /\ LET file == fs[task[t].study_code].files[task[t].filename]
       IN  IF file.kind = "image"
           THEN /\ task' = [task EXCEPT ![t] =
                                [@ EXCEPT !.pc = "midline",
                                          !.img = as_closest_canonical(file.img)]]
                /\ fs' = fs
           ELSE /\ task' = [task EXCEPT ![t] =
                                [@ EXCEPT !.pc = "respond",
                                          !.exc = "Exception",
                                          !.cause = IF file.kind = "no_image"
                                                    THEN "NotFound"
                                                    ELSE "CorruptInput"]]
                /\ fs' = fs_on_raise(t)
    /\ UNCHANGED <<loop, vol, out, fnArgs, fnOut>>

\* process_study lines 56-66
Midline(t) ==
    /\ task[t].pc = "midline"
    /\ task' = [task EXCEPT ![t] = [@ EXCEPT !.pc = "labels",
                                              !.mid_x_mm = mid_x(task[t].img),
                                              !.n = 1]]
    /\ UNCHANGED <<fs, loop, vol, out, fnArgs, fnOut>>

\* process_study lines 70-90: one turn of the label loop
LabelStep(t) ==
    /\ task[t].pc = "labels"
    /\ LET n == task[t].n
           rec == label_record(task[t].img, task[t].mid_x_mm,
                               patient_of(task[t].filename),
                               labels_dict[n][1], labels_dict[n][2])
       IN  task' = [task EXCEPT ![t] =
                       [@ EXCEPT !.results = Append(@, rec),
                                 !.n = IF n = Len(labels_dict) THEN 0 ELSE n + 1,
                                 !.pc = IF n = Len(labels_dict) THEN "open" ELSE "labels"]]
    /\ UNCHANGED <<fs, loop, vol, out, fnArgs, fnOut>>

\* process_study lines 70-93: a turn of the label loop raises (MemoryError in
\* numpy, say); the except clause wraps it
LabelFault(t) ==
    /\ task[t].pc = "labels"
    /\ task' = [task EXCEPT ![t] = [@ EXCEPT !.pc = "respond",
                                              !.exc = "Exception",
                                              !.cause = "ProcessingError"]]
    /\ fs' = fs_on_raise(t)
    /\ UNCHANGED <<loop, vol, out, fnArgs, fnOut>>

\* process_study lines 96-97: open(metrics_file, 'w') creates or truncates
OpenMetrics(t) ==
    /\ task[t].pc = "open"
    /\ fs' = [fs EXCEPT ![task[t].study_code].metrics =
                            [present |-> TRUE, content |-> <<>>]]
    /\ task' = [task EXCEPT ![t] = [@ EXCEPT !.pc = "dump", !.n = 1]]
    /\ UNCHANGED <<loop, vol, out, fnArgs, fnOut>>

\* process_study line 98: json.dump writes the next record; after the last
\* one the file is closed and process_study returns (lines 100-105)
Dump(t) ==
    /\ task[t].pc = "dump"
    /\ LET n == task[t].n
       IN  /\ fs' = [fs EXCEPT ![task[t].study_code].metrics.content =
                                   write_at(@, n, task[t].results[n])]
           /\ task' = [task EXCEPT ![t] =
                          [@ EXCEPT !.n = IF n = Len(task[t].results) THEN 0 ELSE n + 1,
                                    !.pc = IF n = Len(task[t].results)
                                           THEN "respond" ELSE "dump"]]
    /\ UNCHANGED <<loop, vol, out, fnArgs, fnOut>>

\* analyze_study_handler lines 31-42: the response
Respond(t) ==
    /\ task[t].pc = "respond"
    /\ task' = [task EXCEPT ![t] = [@ EXCEPT !.pc = "done",
                                              !.status_code = status_of(task[t].exc)]]
    /\ loop' = 0
    /\ UNCHANGED <<fs, vol, out, fnArgs, fnOut>>

Next ==
    \E t \in Tasks :
        \/ \E study_code \in Studies, filename \in FileNames :
                Receive(t, study_code, filename)
        \/ CheckPaths(t)
        \/ Load(t)
        \/ Midline(t)
        \/ LabelStep(t)
        \/ LabelFault(t)
        \/ OpenMetrics(t)
        \/ Dump(t)
        \/ Respond(t)

Spec == Init /\ [][Next]_vars

---------------------------------------------------------------------------
\* Engine specification: the analysis of one readable image file
\* (process_study lines 46-90 as a function of the file).

EngineInit ==
    /\ \E shape \in EngineShapes, aff \in EngineAffines :
          \E data \in [Indices(shape) -> LabelValues] : vol = Image(shape, data, aff)
    /\ out = NoOutput
    /\ fs = <<>>
    /\ task = <<>>
    /\ loop = 0
    /\ fnArgs = <<>>
    /\ fnOut = NoCall

Analyze ==
    /\ out.state = "input"
    /\ out' = [state |-> "done", analysis |-> process_image(vol, "p")]
    /\ UNCHANGED <<fs, task, loop, vol, fnArgs, fnOut>>

EngineNext == Analyze

SpecEngine == EngineInit /\ [][EngineNext]_vars

---------------------------------------------------------------------------
\* Helper specification: one call of _hemispheric_counts or _centroid_mm
\* on arbitrary arguments.

HelperInit ==
    /\ \E aff \in HelperAffines, coords \in HelperCoords, mid \in HelperMids :
          fnArgs = [affine |-> aff, coords_vox |-> coords, mid_x_mm |-> mid]
    /\ fnOut = NoCall
    /\ fs = <<>>
    /\ task = <<>>
    /\ loop = 0
    /\ vol = <<>>
    /\ out = NoOutput

CallHemisphericCounts ==
    /\ fnOut.fn = "none"
    /\ fnOut' = [fn |-> "_hemispheric_counts",
                 ret |-> hemispheric_counts(fnArgs.affine, fnArgs.coords_vox,
                                            fnArgs.mid_x_mm)]
    /\ UNCHANGED <<fs, task, loop, vol, out, fnArgs>>

CallCentroidMm ==
    /\ fnOut.fn = "none"
    /\ fnOut' = [fn |-> "_centroid_mm",
                 ret |-> centroid_mm(fnArgs.affine, fnArgs.coords_vox)]
    /\ UNCHANGED <<fs, task, loop, vol, out, fnArgs>>

HelperNext == CallHemisphericCounts \/ CallCentroidMm

SpecHelpers == HelperInit /\ [][HelperNext]_vars

---------------------------------------------------------------------------
\* Properties of the helpers (SpecHelpers).

\* world coordinate r of voxel index i under the affine of the helper call
ArgWorld(i, r) == Dot(fnArgs.affine.M[r], i) + fnArgs.affine.t[r]

ArgCoordSet == {fnArgs.coords_vox[i] : i \in 1..Len(fnArgs.coords_vox)}

\* C1: _hemispheric_counts puts each voxel in exactly one hemisphere: left is
\* the number of voxels with world x strictly below mid_x_mm, right the number
\* with world x at or above it, and left + right is the number of voxels.
C1_HemispheresPartition ==
    fnOut.fn = "_hemispheric_counts" =>
        /\ fnOut.ret[1] = Cardinality({c \in ArgCoordSet :
                ArgWorld(c, 1) * fnArgs.mid_x_mm[2] < fnArgs.mid_x_mm[1]})
        /\ fnOut.ret[2] = Cardinality({c \in ArgCoordSet :
                ArgWorld(c, 1) * fnArgs.mid_x_mm[2] >= fnArgs.mid_x_mm[1]})
        /\ fnOut.ret[1] + fnOut.ret[2] = Len(fnArgs.coords_vox)

\* a call with a voxel on the midline, one left of it and one right of it
C1_Witness ==
    /\ fnOut.fn = "_hemispheric_counts"
    /\ \E c \in ArgCoordSet : ArgWorld(c, 1) * fnArgs.mid_x_mm[2] = fnArgs.mid_x_mm[1]
    /\ fnOut.ret[1] >= 1
    /\ fnOut.ret[2] >= 2

\* C6: for a non-empty voxel set the centroid _centroid_mm returns (the affine
\* applied to the mean index) is the component-wise mean of the world
\* coordinates of the voxels, each transformed by the affine.
C6_CentroidIsMeanOfWorldCoords ==
    (fnOut.fn = "_centroid_mm" /\ Len(fnArgs.coords_vox) > 0) =>
        LET world == [i \in 1..Len(fnArgs.coords_vox) |->
                        [r \in 1..3 |-> ArgWorld(fnArgs.coords_vox[i], r)]]
            total == SumVec(world)
        IN  \A r \in 1..3 : RatEq(fnOut.ret[r], <<total[r], Len(fnArgs.coords_vox)>>)

\* a centroid of several voxels under a sheared, translated affine, not on the grid
C6_Witness ==
    /\ fnOut.fn = "_centroid_mm"
    /\ Len(fnArgs.coords_vox) >= 2
    /\ fnArgs.affine.M[1][2] # 0
    /\ fnArgs.affine.t # <<0, 0, 0>>
    /\ fnOut.ret[1][1] % fnOut.ret[1][2] # 0

---------------------------------------------------------------------------
\* Properties of the analysis (SpecEngine), stated on the file as stored.

Done == out.state = "done"

\* world coordinate r of the voxel stored at index i of the file
World(i, r) == Dot(vol.affine.M[r], i) + vol.affine.t[r]

\* the stored voxels holding label L
Voxels(L) == {i \in Indices(vol.shape) : vol.data[i] = L}

\* the stored voxels of a set F left of the plane x = m
LeftOf(F, m) == {i \in F : World(i, 1) * m[2] < m[1]}

\* v is the k-th smallest world x among the voxels of F
KthX(F, v, k) ==
    /\ Cardinality({i \in F : World(i, 1) < v}) < k
    /\ k <= Cardinality({i \in F : World(i, 1) <= v})

\* m is the median of the world x of the voxels of F or, when F is empty, the
\* world x of the central voxel index of the array
MedianPlane(F, m) ==
    IF F = {}
    THEN RatEq(m, <<Dot(vol.affine.M[1], [c \in 1..3 |-> vol.shape[c] - 1])
                     + 2 * vol.affine.t[1], 2>>)
    ELSE \E i \in F, j \in F :
            /\ KthX(F, World(i, 1), (Cardinality(F) + 1) \div 2)
            /\ KthX(F, World(j, 1), Cardinality(F) \div 2 + 1)
            /\ RatEq(m, <<World(i, 1) + World(j, 1), 2>>)

\* every record splits its label at the one plane x = out.analysis.mid_x_mm
OnePlaneForAllLabels ==
    \A n \in 1..Len(labels_dict) :
        LET F == Voxels(labels_dict[n][1])
            l == Cardinality(LeftOf(F, out.analysis.mid_x_mm))
        IN  F # {} =>
              RatEq(out.analysis.results[n].asymmetry_index,
                    <<l - (Cardinality(F) - l), Cardinality(F)>>)

\* C3 as stated: mid_x_mm is the median world x of every voxel whose label is
\* nonzero (the central voxel without any), and every label is split at it.
C3_MidlineOverNonzero ==
    Done => /\ MedianPlane({i \in Indices(vol.shape) : vol.data[i] # 0},
                           out.analysis.mid_x_mm)
            /\ OnePlaneForAllLabels

\* C3 amended: mid_x_mm is the median world x of every voxel whose label is
\* greater than zero, configured or not (the central voxel without any), and
\* every label is split at it.
C3_MidlineOverPositive ==
    Done => /\ MedianPlane({i \in Indices(vol.shape) : vol.data[i] > 0},
                           out.analysis.mid_x_mm)
            /\ OnePlaneForAllLabels

\* a file with a configured label, an unconfigured positive label and a
\* negative label, whose median plane falls between two voxels
C3_Witness ==
    /\ Done
    /\ Voxels(1) # {}
    /\ Voxels(MaxLabel) # {}
    /\ Voxels(MinLabel) # {}
    /\ out.analysis.mid_x_mm[2] = 2
    /\ out.analysis.mid_x_mm[1] % 2 = 1

\* C4: a configured label without any voxel gets volume 0, asymmetry 0 and a
\* NaN centroid; the analysis still yields one record per configured label, in
\* order, the labels that are present with a positive volume.
C4_AbsentLabelRecord ==
    Done =>
        /\ Len(out.analysis.results) = Len(labels_dict)
        /\ \A n \in 1..Len(labels_dict) :
            LET rec == out.analysis.results[n]
            IN  /\ rec.label = labels_dict[n][2]
                /\ Voxels(labels_dict[n][1]) = {} =>
                      /\ RatEq(rec.volume_mL, <<0, 1>>)
                      /\ RatEq(rec.asymmetry_index, <<0, 1>>)
                      /\ IsNaN(rec.centroid_x_mm)
                      /\ IsNaN(rec.centroid_y_mm)
                      /\ IsNaN(rec.centroid_z_mm)
                /\ Voxels(labels_dict[n][1]) # {} =>
                      /\ RatLT(<<0, 1>>, rec.volume_mL)
                      /\ ~IsNaN(rec.centroid_x_mm)

\* a file where the first label is absent and the second present
C4_Witness ==
    /\ Done
    /\ Voxels(1) = {}
    /\ Voxels(2) # {}
    /\ IsNaN(out.analysis.results[1].centroid_x_mm)

\* C5: for a label with at least one voxel the asymmetry index lies in
\* [-1, 1], is positive exactly when more voxels are left than right, is +1
\* exactly when all its voxels are left of the plane and -1 exactly when none is.
C5_AsymmetryRange ==
    Done =>
        \A n \in 1..Len(labels_dict) :
            LET F == Voxels(labels_dict[n][1])
                l == Cardinality(LeftOf(F, out.analysis.mid_x_mm))
                r == Cardinality(F) - l
                a == out.analysis.results[n].asymmetry_index
            IN  F # {} =>
                  /\ RatGE(a, <<0 - 1, 1>>)
                  /\ RatGE(<<1, 1>>, a)
                  /\ RatLT(<<0, 1>>, a) <=> l > r
                  /\ RatEq(a, <<1, 1>>) <=> r = 0
                  /\ RatEq(a, <<0 - 1, 1>>) <=> l = 0

\* one label entirely left of the plane, another split unevenly across it
C5_Witness ==
    /\ Done
    /\ RatEq(out.analysis.results[1].asymmetry_index, <<1, 1>>)
    /\ RatLT(out.analysis.results[2].asymmetry_index, <<0, 1>>)
    /\ RatLT(<<0 - 1, 1>>, out.analysis.results[2].asymmetry_index)

\* the file with array axis c stored in the opposite direction
FlipAxis(img, c) ==
    [shape |-> img.shape,
     data |-> [i \in Indices(img.shape) |->
                 img.data[[i EXCEPT ![c] = img.shape[c] - 1 - i[c]]]],
     affine |-> [M |-> [r \in 1..3 |->
                          [img.affine.M[r] EXCEPT ![c] = 0 - img.affine.M[r][c]]],
                 t |-> [r \in 1..3 |->
                          img.affine.t[r] + img.affine.M[r][c] * (img.shape[c] - 1)]],
     zooms |-> img.zooms]

SwapIdx(i, c1, c2) == [i EXCEPT ![c1] = i[c2], ![c2] = i[c1]]

\* the file with array axes c1 and c2 stored in exchanged order
SwapAxes(img, c1, c2) ==
    [shape |-> SwapIdx(img.shape, c1, c2),
     data |-> [i \in Indices(SwapIdx(img.shape, c1, c2)) |->
                 img.data[SwapIdx(i, c1, c2)]],
     affine |-> [M |-> [r \in 1..3 |-> SwapIdx(img.affine.M[r], c1, c2)],
                 t |-> img.affine.t],
     zooms |-> SwapIdx(img.zooms, c1, c2)]

\* other storage orders of the same anatomy
Restored(img) ==
    {FlipAxis(img, 1), FlipAxis(img, 2), FlipAxis(img, 3),
     SwapAxes(img, 1, 2), SwapAxes(img, 2, 3)}

SameNumber(a, b) == (IsNaN(a) /\ IsNaN(b)) \/ RatEq(a, b)

SameRecord(a, b) ==
    /\ a.patient = b.patient
    /\ a.label = b.label
    /\ SameNumber(a.volume_mL, b.volume_mL)
    /\ SameNumber(a.asymmetry_index, b.asymmetry_index)
    /\ SameNumber(a.centroid_x_mm, b.centroid_x_mm)
    /\ SameNumber(a.centroid_y_mm, b.centroid_y_mm)
    /\ SameNumber(a.centroid_z_mm, b.centroid_z_mm)

\* C9: the same anatomy stored with an axis flipped or two axes exchanged
\* (data, affine and zooms changed together) yields the same median plane and
\* the same record for every configured label.
C9_StorageOrderInvariant ==
    Done =>
        \A other \in Restored(vol) :
            \A again \in {process_image(other, "p")} :
                /\ SameNumber(again.mid_x_mm, out.analysis.mid_x_mm)
                /\ \A n \in 1..Len(labels_dict) :
                      SameRecord(again.results[n], out.analysis.results[n])

\* a file not stored in canonical order, with a label off the centre and
\* unevenly split
C9_Witness ==
    /\ Done
    /\ vol.affine.M[1][1] = 0
    /\ Voxels(1) # {}
    /\ ~RatEq(out.analysis.results[1].asymmetry_index, <<0, 1>>)
    /\ ~RatEq(out.analysis.results[1].asymmetry_index, <<0 - 1, 1>>)

\* C10: when the voxels of a configured label are all the foreground, at least
\* as many of them are right as left (asymmetry <= 0); a single foreground
\* voxel lies on the plane and counts as right: asymmetry -1, the volume of one
\* voxel, and the centroid at the voxel's world coordinate.
C10_SoleForegroundLabel ==
    Done =>
        \A n \in 1..Len(labels_dict) :
            LET F == Voxels(labels_dict[n][1])
                rec == out.analysis.results[n]
            IN  (F # {} /\ F = {i \in Indices(vol.shape) : vol.data[i] > 0}) =>
                  /\ RatGE(<<0, 1>>, rec.asymmetry_index)
                  /\ \A i \in F : F = {i} =>
                        /\ RatEq(out.analysis.mid_x_mm, <<World(i, 1), 1>>)
                        /\ RatEq(rec.asymmetry_index, <<0 - 1, 1>>)
                        /\ RatEq(rec.volume_mL,
                                 <<vol.zooms[1] * vol.zooms[2] * vol.zooms[3], 1000>>)
                        /\ RatEq(rec.centroid_x_mm, <<World(i, 1), 1>>)
                        /\ RatEq(rec.centroid_y_mm, <<World(i, 2), 1>>)
                        /\ RatEq(rec.centroid_z_mm, <<World(i, 3), 1>>)

\* a file whose only foreground voxel holds the second label, away from the
\* world origin
C10_Witness ==
    /\ Done
    /\ Cardinality(Voxels(2)) = 1
    /\ Voxels(2) = {i \in Indices(vol.shape) : vol.data[i] # 0}
    /\ RatEq(out.analysis.results[2].asymmetry_index, <<0 - 1, 1>>)
    /\ ~RatEq(out.analysis.results[2].centroid_x_mm, <<0, 1>>)

---------------------------------------------------------------------------
\* Properties of the service (Spec).

\* the file a request names
FileOf(t) == fs[task[t].study_code].files[task[t].filename]

\* metrics.json of the study a request names
MetricsOf(t) == fs[task[t].study_code].metrics

\* process_study has returned normally in run t
Succeeded(t) == task[t].pc \in {"respond", "done"} /\ task[t].exc = "none"

\* the records the analysis of each image on disk yields, per patient name
Analysis ==
    [img \in {ImgA, ImgB}, name \in {patient_of(f) : f \in FileNames} |->
        process_image(img, name).results]

\* the records a run of t's request on its file yields
ExpectedRecords(t) == Analysis[FileOf(t).img, patient_of(task[t].filename)]

\* C2: process_study is all-or-nothing.  When it has returned, metrics.json
\* holds exactly one record per configured label, in the order of the label
\* mapping, all of this run; when it has raised, metrics.json is as it was
\* before the run (not created, not changed).
C2_AllOrNothing ==
    \A t \in Tasks :
        task[t].pc = "respond" =>
            IF task[t].exc = "none"
            THEN /\ MetricsOf(t).present
                 /\ Len(MetricsOf(t).content) = Len(labels_dict)
                 /\ \A n \in 1..Len(labels_dict) :
                       /\ MetricsOf(t).content[n].label = labels_dict[n][2]
                       /\ MetricsOf(t).content[n].patient = patient_of(task[t].filename)
                 /\ MetricsOf(t).content = ExpectedRecords(t)
            ELSE MetricsOf(t) = task[t].before

\* a run that raised in the label loop after computing a record, over an
\* earlier metrics.json
C2_Witness ==
    \E t \in Tasks :
        /\ task[t].pc = "respond"
        /\ task[t].cause = "ProcessingError"
        /\ Len(task[t].results) >= 1
        /\ task[t].before = OldMetrics
        /\ MetricsOf(t) = OldMetrics

\* C7: every NotFound failure reaches the handler as FileNotFoundError and is
\* answered 404, whichever step raised it; only other failures are answered 500.
C7_NotFoundIs404 ==
    \A t \in Tasks :
        task[t].pc = "done" =>
            /\ task[t].cause = "NotFound" =>
                  (task[t].exc = "FileNotFoundError" /\ task[t].status_code = 404)
            /\ task[t].status_code = 500 => task[t].cause \notin {"none", "NotFound"}

\* the response a request gets when it is the only one
AloneStatus(t) ==
    IF ~fs[task[t].study_code].exists \/ FileOf(t).kind = "absent" THEN {404}
    ELSE IF FileOf(t).kind = "image" THEN {200, 500}
    ELSE {500}

\* C8: runs do not disturb each other.  Every request is answered as it would
\* be alone, a successful run computed the records of its own file, and
\* whenever no run is writing a study's metrics.json the file is the complete
\* record sequence of one successful run of that study (or as it was at the
\* start, if none succeeded).
C8_RunsIsolated ==
    /\ \A t \in Tasks :
          /\ task[t].pc = "done" =>
                /\ task[t].status_code \in AloneStatus(t)
                /\ task[t].status_code = 500 /\ FileOf(t).kind = "image"
                      => task[t].cause = "ProcessingError"
          /\ Succeeded(t) => task[t].results = ExpectedRecords(t)
    /\ \A s \in Studies :
          (\A t \in Tasks : task[t].pc = "dump" => task[t].study_code # s) =>
              LET W == {t \in Tasks : Succeeded(t) /\ task[t].study_code = s}
              IN  IF W = {} THEN fs[s].metrics \in {NoMetrics, OldMetrics}
                  ELSE \E t \in W :
                          fs[s].metrics = [present |-> TRUE, content |-> ExpectedRecords(t)]

\* two successful runs of different files of the same study, both answered
C8_Witness ==
    \E t \in Tasks, u \in Tasks :
        /\ task[t].pc = "done" /\ task[t].status_code = 200
        /\ task[u].pc = "done" /\ task[u].status_code = 200
        /\ task[t].study_code = task[u].study_code
        /\ task[t].filename # task[u].filename
        /\ MetricsOf(t).content = ExpectedRecords(u)

====
